---- MODULE Spec2Model ----
(***************************************************************************)
(* A model of the load balancer's decision core: the ServerPool registry  *)
(* (src/lb/serverpool.go), the RoundRobin strategy (src/lb/roundrobin.go), *)
(* the StickyMap and ipToIndex (src/unnamed/part_000) and the request      *)
(* handler of src/cmd/lb/main.go.                                          *)
(*                                                                         *)
(* Addresses are the numbers 1..NumAddrs; their numeric order stands for   *)
(* the lexicographic order of the address strings ("A" = 1, "B" = 2, ...). *)
(* NoAddr stands for the empty string "" that the selections return with   *)
(* found = false.                                                          *)
(*                                                                         *)
(* Go leaves the iteration order of a map unspecified (the runtime picks a *)
(* random starting point per loop), so every `for ... range sp.backends`   *)
(* is modelled over an arbitrary ordering of the map's keys.               *)
(***************************************************************************)
EXTENDS Integers, Sequences, FiniteSets, TLC

\* ------------------------------------------------------------------ bounds
NumAddrs == 2
MaxWeight == 3
MaxActive == 2
MaxCounter == 4
NumReqs == 2
NumClientIDs == 1
MaxStructural == 2
MaxRequests == 2
MaxFlips == 2
MaxTime == 2
MaxSnapLen == 3
\* StickyMap.ttl (main.go:84: 30 days), in units of the model's clock
StickyTTL == 1

Addrs == 1..NumAddrs
NoAddr == 0
\* weights handed to AddServerWithWeight, zero and a negative one included
InputWeights == -1..MaxWeight

VARIABLES
    backends,       \* ServerPool.backends: map[string]*Backend
    weightCounter,  \* ServerPool.weightCounter
    rrCounter,      \* RoundRobin.counter
    store,          \* StickyMap.store: clientID -> backend address
    strategy,       \* main: STRATEGY
    stickyMode,     \* main: STICKY
    req,            \* the requests being served, each with its position and locals
    lastOp,         \* history: the last structural call on the registry
    snaps,          \* history: HealthyBackends() results since the last structural call
    wsel,           \* history: GetWeightedBackend() results since the last structural call
    rsel,           \* history: RoundRobin.NextBackend() results since the last structural call
    lc,             \* history: the GetLeastConnBackend() result on the current state
    structCalls,    \* how many structural calls the concurrent run has made
    started,        \* how many requests the concurrent run has started
    hc,             \* the HealthChecker goroutine: its position and locals
    probe,          \* how each backend's /health answers at present
    flips,          \* how many times the backends' answers have changed
    now,            \* time.Now(), in units of the model's clock
    created,        \* history: for each sticky entry, the time of the Set call that stored it
    ipCall          \* a call of ipToIndex: its arguments and, once it has returned, its result

progVars == <<backends, weightCounter, rrCounter, store, strategy, stickyMode, req>>
histVars == <<lastOp, snaps, wsel, rsel, lc>>
boundVars == <<structCalls, started>>
monVars == <<hc, probe, flips>>
clockVars == <<now, created>>
vars == <<progVars, histVars, boundVars, monVars, clockVars, ipCall>>

\* ---------------------------------------------------------------- helpers
\* every order in which a `range` loop may visit the keys of a map
Orders(S) ==
    {s \in [1..Cardinality(S) -> S] :
        \A i, j \in 1..Cardinality(S) : i # j => s[i] # s[j]}

Range(s) == {s[i] : i \in 1..Len(s)}

RECURSIVE SumOver(_, _)
SumOver(S, f) ==
    IF S = {} THEN 0
    ELSE LET a == CHOOSE x \in S : TRUE IN f[a] + SumOver(S \ {a}, f)

\* ------------------------------------------------ Backend (serverpool.go)
\* a registration that stores the weight as given
NormWeightKeep(w) == w

NormWeight(w) == IF w <= 0 THEN 1 ELSE w

NewBackend(w) == [Weight |-> w, Healthy |-> TRUE, active |-> 0]

\* Backend.incActive: atomic.AddInt64(&b.active, 1)
incActive(b) == [b EXCEPT !.active = @ + 1]

\* Backend.decActive, first atomic operation: n := atomic.AddInt64(&b.active, -1)
decActiveAdd(b) == [b EXCEPT !.active = @ - 1]

\* Backend.decActive, second atomic operation: if n < 0 { atomic.StoreInt64(&b.active, 0) }
decActiveStore(b) == [b EXCEPT !.active = 0]

\* Backend.decActive run to completion with nothing in between
decActive(b) ==
    LET n == decActiveAdd(b).active
    IN  IF n < 0 THEN decActiveStore(decActiveAdd(b)) ELSE decActiveAdd(b)

\* --------------------------------------------- ServerPool (serverpool.go)
NewServerPoolFromMap(addrs) ==
    [a \in DOMAIN addrs |-> NewBackend(NormWeight(addrs[a]))]

HealthySet == {a \in DOMAIN backends : backends[a].Healthy}

\* a HealthyBackends that forgets the `if b.Healthy` test
HealthyBackendsUnfiltered(order) == order

\* HealthyBackends: the loop appends addr when b.Healthy, in map order
HealthyBackends(order) == SelectSeq(order, LAMBDA a : backends[a].Healthy)

\* GetServers: a copy addr -> Healthy
GetServers == [a \in DOMAIN backends |-> backends[a].Healthy]

\* totalWeight is called by GetWeightedBackend but is not among the sources:
\* the sum of the weights of the currently healthy backends.
totalWeight == SumOver(HealthySet, [a \in DOMAIN backends |-> backends[a].Weight])

\* GetWeightedBackend, the bucket scan (lines 185-196) in map order
RECURSIVE WeightedScan(_, _, _)
WeightedScan(order, mod, cum) ==
    IF order = <<>> THEN [addr |-> NoAddr, ok |-> FALSE]
    ELSE LET b == backends[Head(order)]
         IN  IF ~b.Healthy THEN WeightedScan(Tail(order), mod, cum)
             ELSE IF mod < cum + b.Weight THEN [addr |-> Head(order), ok |-> TRUE]
             ELSE WeightedScan(Tail(order), mod, cum + b.Weight)

\* GetLeastConnBackend, the loop (lines 122-135) in map order; chosen = NoAddr is nil
RECURSIVE LeastConnScan(_, _)
LeastConnScan(order, chosen) ==
    IF order = <<>> THEN chosen
    ELSE LET a == Head(order)
         IN  IF ~backends[a].Healthy THEN LeastConnScan(Tail(order), chosen)
             ELSE IF chosen = NoAddr THEN LeastConnScan(Tail(order), a)
             ELSE IF backends[a].active < backends[chosen].active
                  THEN LeastConnScan(Tail(order), a)
             ELSE LeastConnScan(Tail(order), chosen)

\* a GetLeastConnBackend that keeps the first healthy backend it meets
GetLeastConnBackendFirstHealthy(order) ==
    LET snap == SelectSeq(order, LAMBDA a : backends[a].Healthy)
    IN  IF snap = <<>> THEN [addr |-> NoAddr, ok |-> FALSE]
        ELSE [addr |-> Head(snap), ok |-> TRUE]

\* GetLeastConnBackend (serverpool.go:118-141): the loop, then the nil test
GetLeastConnBackendResult(order) ==
    LET chosen == LeastConnScan(order, NoAddr)
    IN  IF chosen = NoAddr THEN [addr |-> NoAddr, ok |-> FALSE]
        ELSE [addr |-> chosen, ok |-> TRUE]

\* --------------------------------------------- StickyMap, ipToIndex (part_000)
\* StickyMap.Set: s.store[clientID] = backend
StickySet(clientID, backend) ==
    [c \in DOMAIN store \cup {clientID} |-> IF c = clientID THEN backend ELSE store[c]]

\* an ipToIndex that returns -1 for a string that does not parse as an IP
ipToIndexParseFails(ip, n) ==
    IF n <= 0 \/ ip.kind = "bad" THEN -1
    ELSE IF ip.kind = "v4" THEN (ip.o[1] + ip.o[2] + ip.o[3] + ip.o[4]) % n
    ELSE ip.h0 % n

\* ipToIndex: -1 when n <= 0; an IPv4 address gives the sum of its four octets
\* mod n; an IPv6 address or an unparsable string gives the first byte of its
\* SHA-1 digest mod n (ip.h0 is that byte).
ipToIndex(ip, n) ==
    IF n <= 0 THEN -1
    ELSE IF ip.kind = "v4" THEN (ip.o[1] + ip.o[2] + ip.o[3] + ip.o[4]) % n
    ELSE ip.h0 % n

\* ------------------------------------------------------------- requests
Reqs == 1..NumReqs
ClientIDs == 1..NumClientIDs
NoCookie == 0
ClientIPs ==
    { [kind |-> "v4", o |-> <<10, 0, 0, 1>>, h0 |-> 0],
      [kind |-> "v4", o |-> <<10, 0, 0, 2>>, h0 |-> 0],
      [kind |-> "bad", o |-> <<0, 0, 0, 0>>, h0 |-> 7] }
NoIP == [kind |-> "v4", o |-> <<0, 0, 0, 0>>, h0 |-> 0]

\* the strings ipToIndex can be given: IPv4 addresses (net.ParseIP and To4
\* succeed), IPv6 addresses (To4 is nil) and strings that do not parse, the
\* last two with the first byte of their SHA-1 digest
Octets == {0, 1, 255}
IndexInputs ==
    { [kind |-> "v4", o |-> o, h0 |-> 0] : o \in [1..4 -> Octets] }
        \cup { [kind |-> k, o |-> <<0, 0, 0, 0>>, h0 |-> h] : k \in {"v6", "bad"}, h \in {0, 7, 255} }
\* the lengths it can be given, zero and a negative one included
IndexLens == -1..MaxSnapLen
NoCall == [ip |-> NoIP, n |-> 0, idx |-> 0, done |-> FALSE]

\* A request that is not being served. Fields: pc the position in the handler;
\* call what is being run (the main handler or RoundRobin.NextBackend); cookie,
\* ua, ip the request's LB-STICKY cookie, User-Agent length class and client IP;
\* b, ok the backend in hand and the selection's found flag; total, mod, snap
\* the locals of the selection; path the branch that chose b; live whether the
\* *Backend held by decActive is still the one in the map; setCookie, resp the
\* response. sel, hAlways, hNever, regAtRet record, for the selection that has
\* returned, which one it was, whether the healthy set was non-empty (empty) at
\* every moment of the call, and whether the address returned was registered
\* when it returned; recorded whether StickyMap.Set stored the backend in hand;
\* hit the backend StickyMap.Get returned for the cookie, hitExpired whether
\* that entry was past its creation time + TTL at the Get, and hitOK whether it
\* was registered and healthy when the handler tested it; fo whether, from that
\* test on, the backend of the cookie has not been healthy while some other
\* backend was; hAtRet whether the address returned was healthy when returned;
\* stable whether the set of healthy backends is still the one the IP-hash
\* branch took its snapshot of; incd, decd the address IncActive and DecActive
\* were called with (NoAddr before the call), incOK, decOK whether that address
\* was registered at the call.
Idle ==
    [pc |-> "idle", call |-> "none", cookie |-> NoCookie, ua |-> "long", ip |-> NoIP,
     b |-> NoAddr, ok |-> FALSE, total |-> 0, mod |-> 0, snap |-> <<>>,
     path |-> "none", live |-> FALSE, setCookie |-> NoCookie, resp |-> "none",
     sel |-> "none", hAlways |-> FALSE, hNever |-> FALSE, regAtRet |-> FALSE,
     recorded |-> FALSE, hit |-> NoAddr, hitOK |-> FALSE, fo |-> FALSE,
     hAtRet |-> FALSE, stable |-> FALSE, incd |-> NoAddr, incOK |-> FALSE,
     decd |-> NoAddr, decOK |-> FALSE, hitExpired |-> FALSE]

HealthySetOf(bs) == {a \in DOMAIN bs : bs[a].Healthy}

\* what the requests in flight see of a structural call on addr: a selection
\* under way notes whether the healthy set is (non-)empty afterwards, and a
\* *Backend held for addr no longer is the one in the map once addr is removed
\* or replaced.
Observe(q, addr, replaces, bs) ==
    [q EXCEPT
        !.hAlways = IF q.pc \in {"w_count", "w_scan", "rr_count"}
                    THEN @ /\ HealthySetOf(bs) # {} ELSE @,
        !.hNever = IF q.pc \in {"w_count", "w_scan", "rr_count"}
                   THEN @ /\ HealthySetOf(bs) = {} ELSE @,
        !.fo = IF q.pc \in {"w_total", "w_count", "w_scan", "least"}
               THEN @ /\ q.hit \notin HealthySetOf(bs) /\ HealthySetOf(bs) # {} ELSE @,
        !.stable = @ /\ HealthySetOf(bs) = HealthySet,
        !.live = IF replaces /\ q.b = addr THEN FALSE ELSE @]

\* a MarkHealth that registers the address it does not find
MarkHealthCreates(addr, healthy) ==
    /\ hc.lock = "none"
    /\ backends' = [a \in DOMAIN backends \cup {addr} |->
                      IF a \in DOMAIN backends
                      THEN (IF a = addr THEN [backends[a] EXCEPT !.Healthy = healthy]
                            ELSE backends[a])
                      ELSE [Weight |-> 1, Healthy |-> healthy, active |-> 0]]
    /\ req' = [r \in Reqs |-> Observe(req[r], addr, FALSE, backends')]
    /\ UNCHANGED <<weightCounter, rrCounter, store, strategy, stickyMode>>

\* a registration that keeps the *Backend of an address already registered and
\* only sets its weight
AddServerWithWeightKeepsBackend(addr, weight) ==
    /\ hc.lock = "none"
    /\ backends' = [a \in DOMAIN backends \cup {addr} |->
                      IF a # addr THEN backends[a]
                      ELSE IF a \in DOMAIN backends
                           THEN [backends[a] EXCEPT !.Weight = IF weight <= 0 THEN 1 ELSE weight]
                           ELSE [Weight |-> IF weight <= 0 THEN 1 ELSE weight,
                                 Healthy |-> TRUE, active |-> 0]]
    /\ req' = [r \in Reqs |-> Observe(req[r], addr, TRUE, backends')]
    /\ UNCHANGED <<weightCounter, rrCounter, store, strategy, stickyMode>>

\* -------------------------------- the structural calls (each under sp.mu.Lock)
\* sp.mu.Lock() is granted: the health goroutine, the one thread whose hold on
\* sp.mu the model keeps across steps, holds it neither for reading nor for
\* writing
MuFree == hc.lock = "none"

AddServerWithWeight(addr, weight) ==
    /\ MuFree
    /\ backends' = [a \in DOMAIN backends \cup {addr} |->
                      IF a = addr THEN NewBackend(NormWeight(weight)) ELSE backends[a]]
    /\ req' = [r \in Reqs |-> Observe(req[r], addr, TRUE, backends')]
    /\ UNCHANGED <<weightCounter, rrCounter, store, strategy, stickyMode>>

RemoveServer(addr) ==
    /\ MuFree
    /\ backends' = [a \in DOMAIN backends \ {addr} |-> backends[a]]
    /\ req' = [r \in Reqs |-> Observe(req[r], addr, TRUE, backends')]
    /\ UNCHANGED <<weightCounter, rrCounter, store, strategy, stickyMode>>

MarkHealth(addr, healthy) ==
    /\ MuFree
    /\ backends' = IF addr \in DOMAIN backends
                   THEN [backends EXCEPT ![addr].Healthy = healthy]
                   ELSE backends
    /\ req' = [r \in Reqs |-> Observe(req[r], addr, FALSE, backends')]
    /\ UNCHANGED <<weightCounter, rrCounter, store, strategy, stickyMode>>

\* --------------------------------------- HealthChecker (src/unnamed/part_001)
\* what http.Get(backend + "/health") can do: answer 200, fail (an error or
\* another status), or never return (http.Get uses http.DefaultClient, which
\* has no timeout)
ProbeResults == {"ok", "fail", "hang"}

\* the goroutine between two checkAll() calls. Fields: pc its position; todo
\* the keys of the GetServers() copy still to visit, in the order the range
\* visits them; cur the backend being probed; res whether its probe succeeded;
\* lock the hold the goroutine has on sp.mu between its steps. met and late are
\* history: whether another thread has completed a registry call since the
\* probe of cur was sent, and the address of the last MarkHealth of the
\* goroutine if it had been removed since the snapshot.
HcIdle == [pc |-> "sleep", todo |-> <<>>, cur |-> NoAddr, res |-> FALSE,
           lock |-> "none", met |-> FALSE, late |-> NoAddr]

\* ------------------------------------------------------------ histories
NoOp == [op |-> "none", addr |-> NoAddr, healthy |-> FALSE, known |-> FALSE, was |-> FALSE,
         weight |-> 1]
NoResult == [valid |-> FALSE, addr |-> NoAddr, ok |-> FALSE]

\* a structural call starts a new period of fixed membership
ResetHistories ==
    /\ snaps' = <<>>
    /\ wsel' = <<>>
    /\ rsel' = <<>>
    /\ lc' = NoResult
    /\ UNCHANGED <<boundVars, monVars, clockVars, ipCall>>

\* --------------------------- the calls of one caller, each run to completion
SeqAddServerWithWeight(addr, weight) ==
    /\ AddServerWithWeight(addr, weight)
    /\ lastOp' = [op |-> "AddServerWithWeight", addr |-> addr, healthy |-> TRUE,
                  known |-> addr \in DOMAIN backends, was |-> FALSE, weight |-> weight]
    /\ ResetHistories

SeqRemoveServer(addr) ==
    /\ RemoveServer(addr)
    /\ lastOp' = [op |-> "RemoveServer", addr |-> addr, healthy |-> FALSE,
                  known |-> addr \in DOMAIN backends, was |-> FALSE, weight |-> 1]
    /\ ResetHistories

SeqMarkHealth(addr, healthy) ==
    /\ MarkHealth(addr, healthy)
    /\ lastOp' = [op |-> "MarkHealth", addr |-> addr, healthy |-> healthy,
                  known |-> addr \in DOMAIN backends,
                  was |-> addr \in DOMAIN backends /\ backends[addr].Healthy,
                  weight |-> 1]
    /\ ResetHistories

\* ServerPool.IncActive (serverpool.go:144-154)
IncActive(addr) ==
    /\ addr \in DOMAIN backends => backends[addr].active < MaxActive
    /\ backends' = IF addr \in DOMAIN backends
                   THEN [backends EXCEPT ![addr] = incActive(@)]
                   ELSE backends
    /\ lc' = NoResult
    /\ UNCHANGED <<weightCounter, rrCounter, store, strategy, stickyMode, req>>
    /\ UNCHANGED <<lastOp, snaps, wsel, rsel, boundVars, monVars, clockVars, ipCall>>

\* ServerPool.DecActive (serverpool.go:157-166)
DecActive(addr) ==
    /\ backends' = IF addr \in DOMAIN backends
                   THEN [backends EXCEPT ![addr] = decActive(@)]
                   ELSE backends
    /\ lc' = NoResult
    /\ UNCHANGED <<weightCounter, rrCounter, store, strategy, stickyMode, req>>
    /\ UNCHANGED <<lastOp, snaps, wsel, rsel, boundVars, monVars, clockVars, ipCall>>

CallHealthyBackends ==
    \E order \in Orders(DOMAIN backends) :
        /\ snaps' = IF Len(snaps) < 2 THEN Append(snaps, HealthyBackends(order))
                    ELSE <<snaps[2], HealthyBackends(order)>>
        /\ UNCHANGED <<progVars, lastOp, wsel, rsel, lc, boundVars, monVars, clockVars, ipCall>>

CallGetLeastConnBackend ==
    \E order \in Orders(DOMAIN backends) :
        /\ lc' = [valid |-> TRUE,
                  addr |-> GetLeastConnBackendResult(order).addr,
                  ok |-> GetLeastConnBackendResult(order).ok]
        /\ UNCHANGED <<progVars, lastOp, snaps, wsel, rsel, boundVars, monVars, clockVars, ipCall>>

\* RoundRobin.NextBackend (roundrobin.go:42-49)
CallNextBackend ==
    \E order \in Orders(DOMAIN backends) :
        LET snap == HealthyBackends(order) IN
        IF Len(snap) = 0
        THEN UNCHANGED vars
        ELSE /\ rrCounter < MaxCounter
             /\ rrCounter' = rrCounter + 1
             /\ rsel' = Append(rsel, [c |-> rrCounter + 1,
                                      addr |-> snap[(rrCounter % Len(snap)) + 1]])
             /\ UNCHANGED <<backends, weightCounter, store, strategy, stickyMode, req>>
             /\ UNCHANGED <<lastOp, snaps, wsel, lc, boundVars, monVars, clockVars, ipCall>>

\* GetWeightedBackend (serverpool.go:170-197)
CallGetWeightedBackend ==
    \E order \in Orders(DOMAIN backends) :
        IF totalWeight = 0
        THEN UNCHANGED vars
        ELSE /\ weightCounter < MaxCounter
             /\ weightCounter' = weightCounter + 1
             /\ wsel' = Append(wsel,
                    [c |-> weightCounter + 1,
                     addr |-> WeightedScan(order, weightCounter % totalWeight, 0).addr,
                     ok |-> WeightedScan(order, weightCounter % totalWeight, 0).ok])
             /\ UNCHANGED <<backends, rrCounter, store, strategy, stickyMode, req>>
             /\ UNCHANGED <<lastOp, snaps, rsel, lc, boundVars, monVars, clockVars, ipCall>>

\* main.go:38-42, the default map (weights 1); a weight that is not positive
\* is stored as 1
InitMaps == [Addrs -> {-1, 0, 1}]

SeqInit ==
    /\ \E m \in InitMaps : backends = NewServerPoolFromMap(m)
    /\ weightCounter = 0
    /\ rrCounter = 0
    /\ store = <<>>
    /\ strategy = "weighted"
    /\ stickyMode = "none"
    /\ req = [r \in Reqs |-> Idle]
    /\ lastOp = NoOp
    /\ snaps = <<>>
    /\ wsel = <<>>
    /\ rsel = <<>>
    /\ lc = NoResult
    /\ structCalls = 0
    /\ started = 0
    /\ hc = HcIdle
    /\ probe = [a \in Addrs |-> "ok"]
    /\ flips = 0
    /\ now = 0
    /\ created = <<>>
    /\ ipCall = NoCall

\* the structural calls: registration, deregistration, health flips
RegistryNext ==
    \/ \E a \in Addrs, w \in InputWeights : SeqAddServerWithWeight(a, w)
    \/ \E a \in Addrs : SeqRemoveServer(a)
    \/ \E a \in Addrs, h \in BOOLEAN : SeqMarkHealth(a, h)

SnapNext == RegistryNext \/ CallHealthyBackends
SnapSpec == SeqInit /\ [][SnapNext]_vars

\* a structural call between two least-connections selections
LeastStructural(A) ==
    /\ A
    /\ lc' = NoResult
    /\ UNCHANGED <<lastOp, snaps, wsel, rsel, boundVars, monVars, clockVars, ipCall>>

LeastNext ==
    \/ \E a \in Addrs, w \in InputWeights : LeastStructural(AddServerWithWeight(a, w))
    \/ \E a \in Addrs : LeastStructural(RemoveServer(a))
    \/ \E a \in Addrs, h \in BOOLEAN : LeastStructural(MarkHealth(a, h))
    \/ \E a \in Addrs : IncActive(a)
    \/ \E a \in Addrs : DecActive(a)
    \/ CallGetLeastConnBackend
LeastSpec == SeqInit /\ [][LeastNext]_vars

WeightedNext == RegistryNext \/ CallGetWeightedBackend
WeightedSpec == SeqInit /\ [][WeightedNext]_vars

RRNext == RegistryNext \/ CallNextBackend
RRSpec == SeqInit /\ [][RRNext]_vars

\* ------------------------------------- requests served concurrently (main.go)
Strategies == {"weighted", "least", "roundrobin"}
StickyModes == {"none", "cookie", "ip"}

\* main.go:156-168: every strategy but "least" calls GetWeightedBackend
SelectPc == IF strategy = "least" THEN "least" ELSE "w_total"

\* main.go:109-152: where the handler goes first
FirstPc(q) ==
    IF q.call = "NextBackend" THEN "rr_healthy"
    ELSE IF stickyMode = "cookie" /\ q.cookie # NoCookie THEN "cookie_get"
    ELSE IF stickyMode = "ip" THEN "ip_healthy"
    ELSE SelectPc

\* a handler that answers 503 and goes on to IncActive and the forwarding
AfterSelectGoesOn(q, res, which) ==
    LET got == [q EXCEPT !.b = res.addr, !.ok = res.ok, !.sel = which,
                         !.regAtRet = res.addr \in DOMAIN backends,
                         !.hAtRet = res.addr \in HealthySet,
                         !.total = 0, !.mod = 0, !.snap = <<>>]
    IN  IF ~res.ok \/ res.addr = NoAddr
        THEN [got EXCEPT !.pc = "inc", !.resp = "503"]
        ELSE IF stickyMode = "cookie"
        THEN [got EXCEPT !.pc = "sticky_set", !.path = "strategy"]
        ELSE [got EXCEPT !.pc = "inc", !.path = "strategy"]

\* main.go:170-188: the handler once the strategy has returned (addr, ok)
AfterSelect(q, res, which) ==
    LET got == [q EXCEPT !.b = res.addr, !.ok = res.ok, !.sel = which,
                         !.regAtRet = res.addr \in DOMAIN backends,
                         !.hAtRet = res.addr \in HealthySet,
                         !.total = 0, !.mod = 0, !.snap = <<>>]
    IN  IF ~res.ok \/ res.addr = NoAddr
        THEN [got EXCEPT !.pc = "done", !.resp = "503"]
        ELSE IF stickyMode = "cookie"
        THEN [got EXCEPT !.pc = "sticky_set", !.path = "strategy"]
        ELSE [got EXCEPT !.pc = "inc", !.path = "strategy"]

\* the record of the selection is dropped once the handler has moved on
Moved(q) ==
    [q EXCEPT !.sel = "none", !.hAlways = FALSE, !.hNever = FALSE, !.regAtRet = FALSE,
              !.ok = FALSE, !.ua = "long", !.fo = FALSE, !.hAtRet = FALSE]

\* the healthy set as the selection that starts now first sees it
Entering(q) == [q EXCEPT !.hAlways = HealthySet # {}, !.hNever = HealthySet = {}]

SetReq(r, q) ==
    /\ req' = [req EXCEPT ![r] = q]
    /\ UNCHANGED <<strategy, stickyMode, histVars, structCalls, monVars, now, ipCall>>

\* the inputs a request can carry that the configured mode reads
CookiesOf(call) ==
    IF call = "handler" /\ stickyMode = "cookie" THEN {NoCookie} \cup ClientIDs ELSE {NoCookie}
UserAgentsOf(call) ==
    IF call = "handler" /\ stickyMode = "cookie" THEN {"short", "long"} ELSE {"long"}
ClientIPsOf(call) ==
    IF call = "handler" /\ stickyMode = "ip" THEN ClientIPs ELSE {NoIP}

\* a request arrives at the handler, or a caller enters RoundRobin.NextBackend
Start(r, call) ==
    /\ req[r].pc = "idle"
    /\ started < MaxRequests
    /\ started' = started + 1
    /\ \E cookie \in CookiesOf(call), ua \in UserAgentsOf(call), ip \in ClientIPsOf(call) :
           LET q == [Idle EXCEPT !.call = call, !.cookie = cookie, !.ua = ua, !.ip = ip]
           IN  SetReq(r, [q EXCEPT !.pc = FirstPc(q)])
    /\ UNCHANGED <<backends, weightCounter, rrCounter, store, created>>

\* the entry of clientID is past its creation time + TTL
Expired(clientID) == now > created[clientID] + StickyTTL

\* main.go:113: stickyMap.Get(c.Value)
CookieGet(r) ==
    /\ req[r].pc = "cookie_get"
    /\ IF req[r].cookie \in DOMAIN store
       THEN SetReq(r, [req[r] EXCEPT !.pc = "cookie_servers", !.hit = store[req[r].cookie],
                                     !.hitExpired = Expired(req[r].cookie)])
       ELSE SetReq(r, [req[r] EXCEPT !.pc = SelectPc])
    /\ UNCHANGED <<backends, weightCounter, rrCounter, store, created, started>>

\* main.go:115-116: pool.GetServers(), then the test of the assigned backend
CookieServers(r) ==
    /\ req[r].pc = "cookie_servers"
    /\ LET servers == GetServers
           b == req[r].hit
       IN  IF b \in DOMAIN servers /\ servers[b]
           THEN SetReq(r, [req[r] EXCEPT !.pc = "inc", !.b = b, !.path = "cookie",
                                         !.hitOK = b \in HealthySet])
           ELSE SetReq(r, [req[r] EXCEPT !.pc = SelectPc, !.hitOK = b \in HealthySet,
                                         !.fo = b \in DOMAIN backends /\ HealthySet # {}])
    /\ UNCHANGED <<backends, weightCounter, rrCounter, store, created, started>>

\* main.go:132-149: pool.HealthyBackends(), then IpToIndex and backends[idx]
IpHealthy(r) ==
    /\ req[r].pc = "ip_healthy"
    /\ \E order \in Orders(DOMAIN backends) :
        LET snap == HealthyBackends(order)
            idx == ipToIndex(req[r].ip, Len(snap))
        IN  IF Len(snap) = 0
            THEN SetReq(r, [req[r] EXCEPT !.pc = "done", !.resp = "503"])
            ELSE IF idx < 0 \/ idx >= Len(snap)
            THEN SetReq(r, [req[r] EXCEPT !.pc = SelectPc])
            ELSE SetReq(r, [req[r] EXCEPT !.pc = "inc", !.b = snap[idx + 1], !.path = "ip",
                                          !.stable = TRUE])
    /\ UNCHANGED <<backends, weightCounter, rrCounter, store, created, started>>

\* serverpool.go:172-175: total := sp.totalWeight(); if total == 0 return "", false
WeightedTotal(r) ==
    /\ req[r].pc = "w_total"
    /\ IF totalWeight = 0
       THEN SetReq(r, AfterSelect(Entering(req[r]), [addr |-> NoAddr, ok |-> FALSE],
                                  "weighted_total0"))
       ELSE SetReq(r, [Entering(req[r]) EXCEPT !.pc = "w_count", !.total = totalWeight])
    /\ UNCHANGED <<backends, weightCounter, rrCounter, store, created, started>>

\* serverpool.go:178-179: idx := atomic.AddUint64(&sp.weightCounter, 1); mod := ...
WeightedCount(r) ==
    /\ req[r].pc = "w_count"
    /\ weightCounter < MaxCounter
    /\ weightCounter' = weightCounter + 1
    /\ SetReq(r, [req[r] EXCEPT !.pc = "w_scan", !.mod = weightCounter % req[r].total])
    /\ UNCHANGED <<backends, rrCounter, store, created, started>>

\* serverpool.go:182-196: the scan under sp.mu.RLock
WeightedScanStep(r) ==
    /\ req[r].pc = "w_scan"
    /\ \E order \in Orders(DOMAIN backends) :
        SetReq(r, AfterSelect(req[r], WeightedScan(order, req[r].mod, 0), "weighted"))
    /\ UNCHANGED <<backends, weightCounter, rrCounter, store, created, started>>

\* serverpool.go:118-141: GetLeastConnBackend, all of it under sp.mu.RLock
LeastConn(r) ==
    /\ req[r].pc = "least"
    /\ \E order \in Orders(DOMAIN backends) :
        SetReq(r, AfterSelect(Entering(req[r]), GetLeastConnBackendResult(order), "least"))
    /\ UNCHANGED <<backends, weightCounter, rrCounter, store, created, started>>

\* roundrobin.go:43-46: backends := rr.pool.HealthyBackends(); if len == 0 return "", false
RRHealthy(r) ==
    /\ req[r].pc = "rr_healthy"
    /\ \E order \in Orders(DOMAIN backends) :
        LET snap == HealthyBackends(order)
        IN  IF Len(snap) = 0
            THEN SetReq(r, [Entering(req[r]) EXCEPT !.pc = "done", !.sel = "rr",
                                                    !.b = NoAddr, !.ok = FALSE])
            ELSE SetReq(r, [Entering(req[r]) EXCEPT !.pc = "rr_count", !.snap = snap])
    /\ UNCHANGED <<backends, weightCounter, rrCounter, store, created, started>>

\* roundrobin.go:47-48: idx := atomic.AddUint64(&rr.counter, 1); return backends[...]
RRCount(r) ==
    /\ req[r].pc = "rr_count"
    /\ rrCounter < MaxCounter
    /\ rrCounter' = rrCounter + 1
    /\ LET b == req[r].snap[(rrCounter % Len(req[r].snap)) + 1]
       IN  SetReq(r, [req[r] EXCEPT !.pc = "done", !.sel = "rr", !.b = b, !.ok = TRUE,
                                    !.regAtRet = b \in DOMAIN backends, !.snap = <<>>])
    /\ UNCHANGED <<backends, weightCounter, store, created, started>>

\* main.go:176-188 with generateClientID (main.go:221-224). The client ID is
\* built from the clock, the client IP and the first six bytes of the
\* User-Agent: any ID may come out, one already in the store included. With a
\* User-Agent shorter than six bytes, []byte(ua)[:6] is in range only if the
\* conversion's capacity reaches 6, which the runtime decides: the handler
\* either panics there (net/http recovers and drops the connection) or goes on.
StickyRecord(r) ==
    /\ req[r].pc = "sticky_set"
    /\ \/ /\ req[r].ua = "short"
          /\ SetReq(r, [req[r] EXCEPT !.pc = "done", !.resp = "panic"])
          /\ UNCHANGED <<store, created>>
       \/ \E clientID \in ClientIDs :
          /\ store' = StickySet(clientID, req[r].b)
          /\ created' = [c \in DOMAIN store' |-> IF c = clientID THEN now ELSE created[c]]
          /\ SetReq(r, [Moved(req[r]) EXCEPT !.pc = "inc", !.setCookie = clientID,
                                             !.recorded = store'[clientID] = req[r].b])
    /\ UNCHANGED <<backends, weightCounter, rrCounter, started>>

\* pool.IncActive(backend): the lookup under RLock, then b.incActive()
IncActiveStep(r) ==
    /\ req[r].pc = "inc"
    /\ backends' = IF req[r].b \in DOMAIN backends
                   THEN [backends EXCEPT ![req[r].b] = incActive(@)]
                   ELSE backends
    /\ SetReq(r, [Moved(req[r]) EXCEPT !.pc = "forward", !.incd = req[r].b,
                                       !.incOK = req[r].b \in DOMAIN backends])
    /\ UNCHANGED <<weightCounter, rrCounter, store, created, started>>

\* a forwarding whose failure returns without the DecActive
ForwardSkipsDec(r) ==
    /\ req[r].pc = "forward"
    /\ \E err \in BOOLEAN :
        SetReq(r, [req[r] EXCEPT !.pc = IF err THEN "done" ELSE "dec",
                                 !.resp = IF err THEN "502" ELSE "200"])
    /\ UNCHANGED <<backends, weightCounter, rrCounter, store, created, started>>

\* a forwarding that marks the backend unhealthy when it fails
ForwardMarksDown(r) ==
    /\ req[r].pc = "forward"
    /\ \E err \in BOOLEAN :
        /\ SetReq(r, [req[r] EXCEPT !.pc = "dec", !.resp = IF err THEN "502" ELSE "200"])
        /\ backends' = IF err /\ req[r].b \in DOMAIN backends
                       THEN [backends EXCEPT ![req[r].b].Healthy = FALSE]
                       ELSE backends
    /\ UNCHANGED <<weightCounter, rrCounter, store, created, started>>

\* proxy.ForwardRequest(backend, w, r): returns nil, or an error (Bad Gateway)
Forward(r) ==
    /\ req[r].pc = "forward"
    /\ \E err \in BOOLEAN :
        SetReq(r, [req[r] EXCEPT !.pc = "dec", !.resp = IF err THEN "502" ELSE "200"])
    /\ UNCHANGED <<backends, weightCounter, rrCounter, store, created, started>>

\* the deferred pool.DecActive(backend): the lookup under RLock, then the first
\* half of b.decActive(), n := atomic.AddInt64(&b.active, -1)
DecActiveStep(r) ==
    /\ req[r].pc = "dec"
    /\ IF req[r].b \in DOMAIN backends
       THEN /\ backends' = [backends EXCEPT ![req[r].b] = decActiveAdd(@)]
            /\ IF decActiveAdd(backends[req[r].b]).active < 0
               THEN SetReq(r, [req[r] EXCEPT !.pc = "dec_store", !.live = TRUE,
                                             !.decd = req[r].b, !.decOK = TRUE])
               ELSE SetReq(r, [req[r] EXCEPT !.pc = "done",
                                             !.decd = req[r].b, !.decOK = TRUE])
       ELSE /\ UNCHANGED backends
            /\ SetReq(r, [req[r] EXCEPT !.pc = "done", !.decd = req[r].b])
    /\ UNCHANGED <<weightCounter, rrCounter, store, created, started>>

\* the second half of b.decActive(): atomic.StoreInt64(&b.active, 0), on the
\* *Backend looked up before (no longer in the map if addr was removed or replaced)
DecActiveStoreStep(r) ==
    /\ req[r].pc = "dec_store"
    /\ backends' = IF req[r].live
                   THEN [backends EXCEPT ![req[r].b] = decActiveStore(@)]
                   ELSE backends
    /\ SetReq(r, [req[r] EXCEPT !.pc = "done", !.live = FALSE])
    /\ UNCHANGED <<weightCounter, rrCounter, store, created, started>>

\* the handler (or NextBackend) has returned
Finish(r) ==
    /\ req[r].pc = "done"
    /\ SetReq(r, Idle)
    /\ UNCHANGED <<backends, weightCounter, rrCounter, store, created, started>>

\* the state after main has built the pool and read STRATEGY and STICKY
InitWith(modes, strategies) ==
    /\ \E m \in InitMaps : backends = NewServerPoolFromMap(m)
    /\ weightCounter = 0
    /\ rrCounter = 0
    /\ store = <<>>
    /\ strategy \in strategies
    /\ stickyMode \in modes
    /\ req = [r \in Reqs |-> Idle]
    /\ lastOp = NoOp
    /\ snaps = <<>>
    /\ wsel = <<>>
    /\ rsel = <<>>
    /\ lc = NoResult
    /\ structCalls = 0
    /\ started = 0
    /\ hc = HcIdle
    /\ probe = [a \in Addrs |-> "ok"]
    /\ flips = 0
    /\ now = 0
    /\ created = <<>>
    /\ ipCall = NoCall

\* a structural call made while requests are being served
Structural(A) ==
    /\ structCalls < MaxStructural
    /\ structCalls' = structCalls + 1
    /\ A
    /\ UNCHANGED <<histVars, started, monVars, clockVars, ipCall>>

StructuralNext ==
    \/ \E a \in Addrs, w \in InputWeights : Structural(AddServerWithWeight(a, w))
    \/ \E a \in Addrs : Structural(RemoveServer(a))
    \/ \E a \in Addrs, h \in BOOLEAN : Structural(MarkHealth(a, h))

\* the configured strategy (main.go:156-168)
StrategySteps(r) ==
    \/ WeightedTotal(r)
    \/ WeightedCount(r)
    \/ WeightedScanStep(r)
    \/ LeastConn(r)

\* main.go:190-197, then the return
ForwardSteps(r) ==
    \/ IncActiveStep(r)
    \/ Forward(r)
    \/ DecActiveStep(r)
    \/ DecActiveStoreStep(r)
    \/ Finish(r)

\* STICKY=none: requests through the handler, callers of RoundRobin.NextBackend
\* and structural calls, interleaved
Init == InitWith({"none"}, Strategies)

Next ==
    \/ StructuralNext
    \/ \E r \in Reqs :
        \/ Start(r, "handler")
        \/ Start(r, "NextBackend")
        \/ StrategySteps(r)
        \/ RRHealthy(r)
        \/ RRCount(r)
        \/ ForwardSteps(r)

Spec == Init /\ [][Next]_vars

\* STICKY=cookie
CookieInit == InitWith({"cookie"}, {"weighted", "least"})

CookieNext ==
    \/ StructuralNext
    \/ \E r \in Reqs :
        \/ Start(r, "handler")
        \/ CookieGet(r)
        \/ CookieServers(r)
        \/ StrategySteps(r)
        \/ StickyRecord(r)
        \/ ForwardSteps(r)

CookieSpec == CookieInit /\ [][CookieNext]_vars

\* STICKY=ip
IpInit == InitWith({"ip"}, {"weighted"})

IpNext ==
    \/ StructuralNext
    \/ \E r \in Reqs :
        \/ Start(r, "handler")
        \/ IpHealthy(r)
        \/ ForwardSteps(r)

IpSpec == IpInit /\ [][IpNext]_vars

\* ----------------------------- the health monitor (src/unnamed/part_001)
\* a checkAll() that keeps the read lock of its GetServers() while it ranges
HcTickHoldsLock ==
    /\ hc.pc = "sleep"
    /\ hc.lock = "none"
    /\ \E order \in Orders(DOMAIN GetServers) :
          hc' = [HcIdle EXCEPT !.pc = "range", !.todo = order, !.lock = "r"]
    /\ UNCHANGED <<progVars, histVars, boundVars, probe, flips, clockVars, ipCall>>

\* part_001:23-24, 31: the sleep ends, checkAll() copies the registry with
\* GetServers() (RLock, copy, RUnlock: serverpool.go:89-97) and ranges over
\* the copy (a map: any order)
HcTick ==
    /\ hc.pc = "sleep"
    /\ hc.lock = "none"
    /\ \E order \in Orders(DOMAIN GetServers) :
          hc' = [HcIdle EXCEPT !.pc = "range", !.todo = order]
    /\ UNCHANGED <<progVars, histVars, boundVars, probe, flips, clockVars, ipCall>>

\* part_001:32: resp, err := http.Get(backend + "/health"), made with no lock
\* held; a backend that accepts the connection and never answers blocks it
HcGet ==
    /\ hc.pc = "range"
    /\ hc.todo # <<>>
    /\ LET a == Head(hc.todo)
       IN  hc' = [hc EXCEPT !.pc = IF probe[a] = "hang" THEN "hung" ELSE "mark",
                            !.todo = Tail(hc.todo), !.cur = a, !.res = probe[a] = "ok",
                            !.met = FALSE, !.late = NoAddr]
    /\ UNCHANGED <<progVars, histVars, boundVars, probe, flips, clockVars, ipCall>>

\* a checkAll() that registers the backend whose probe succeeded
HcMarkRegisters ==
    /\ hc.pc = "mark"
    /\ IF hc.res THEN AddServerWithWeight(hc.cur, 1) ELSE MarkHealth(hc.cur, FALSE)
    /\ hc' = [hc EXCEPT !.pc = "range", !.cur = NoAddr, !.res = FALSE,
                         !.late = IF hc.cur \in DOMAIN backends THEN NoAddr ELSE hc.cur]
    /\ UNCHANGED <<histVars, boundVars, probe, flips, clockVars, ipCall>>

\* part_001:33-38: hc.pool.MarkHealth(backend, false) on an error or a status
\* other than 200, hc.pool.MarkHealth(backend, true) otherwise
HcMark ==
    /\ hc.pc = "mark"
    /\ MarkHealth(hc.cur, hc.res)
    /\ hc' = [hc EXCEPT !.pc = "range", !.cur = NoAddr, !.res = FALSE,
                         !.late = IF hc.cur \in DOMAIN backends THEN NoAddr ELSE hc.cur]
    /\ UNCHANGED <<histVars, boundVars, probe, flips, clockVars, ipCall>>

\* part_001:24: the range is over, checkAll() returns, time.Sleep(interval)
HcSleep ==
    /\ hc.pc = "range"
    /\ hc.todo = <<>>
    /\ hc' = HcIdle
    /\ UNCHANGED <<progVars, histVars, boundVars, probe, flips, clockVars, ipCall>>

\* a backend starts to answer its /health differently
SetProbe(a, v) ==
    /\ flips < MaxFlips
    /\ probe[a] # v
    /\ probe' = [probe EXCEPT ![a] = v]
    /\ flips' = flips + 1
    /\ UNCHANGED <<progVars, histVars, boundVars, hc, clockVars, ipCall>>

\* a registration or removal made by another thread while the health goroutine
\* runs
MonStructural(A) ==
    /\ structCalls < MaxStructural
    /\ structCalls' = structCalls + 1
    /\ A
    /\ hc' = [hc EXCEPT !.met = @ \/ hc.pc \in {"mark", "hung"}]
    /\ UNCHANGED <<histVars, started, probe, flips, clockVars, ipCall>>

HcStep == HcTick \/ HcGet \/ HcMark \/ HcSleep

\* main.go:89-90: hc := lb.NewHealthChecker(pool); hc.Start(5 * time.Second)
MonitorInit ==
    /\ \E m \in InitMaps : backends = NewServerPoolFromMap(m)
    /\ weightCounter = 0
    /\ rrCounter = 0
    /\ store = <<>>
    /\ strategy = "weighted"
    /\ stickyMode = "none"
    /\ req = [r \in Reqs |-> Idle]
    /\ lastOp = NoOp
    /\ snaps = <<>>
    /\ wsel = <<>>
    /\ rsel = <<>>
    /\ lc = NoResult
    /\ structCalls = 0
    /\ started = 0
    /\ hc = HcIdle
    /\ probe \in [Addrs -> ProbeResults]
    /\ flips = 0
    /\ now = 0
    /\ created = <<>>
    /\ ipCall = NoCall

MonitorNext ==
    \/ HcStep
    \/ \E a \in Addrs, v \in ProbeResults : SetProbe(a, v)
    \/ \E a \in Addrs, w \in InputWeights : MonStructural(AddServerWithWeight(a, w))
    \/ \E a \in Addrs : MonStructural(RemoveServer(a))

MonitorSpec == MonitorInit /\ [][MonitorNext]_vars

\* the goroutine started by HealthChecker.Start is always scheduled again
MonitorLiveSpec == MonitorSpec /\ WF_vars(HcStep)

\* ---------------------------------------------------------------- claims
\* C1: a selection returns found=false iff the healthy set is empty: only if
\* at some moment of the call no registered backend was healthy, and always if
\* none was healthy throughout.
C1_FoundIffHealthy ==
    \A r \in Reqs :
        req[r].sel # "none" =>
            /\ ~req[r].ok => ~req[r].hAlways
            /\ req[r].hNever => ~req[r].ok

\* C2: no backend's active count is ever below 0, whatever the interleaving of
\* IncActive and DecActive.
C2_ActiveNeverNegative ==
    \A a \in DOMAIN backends : backends[a].active >= 0

\* C7: once RemoveServer(addr) has returned, no selection returns addr until it
\* is registered again, not even one that had taken its snapshot before.
C7_RemovedNeverSelected ==
    \A r \in Reqs :
        (req[r].sel # "none" /\ req[r].ok) => req[r].regAtRet

\* C10: a request without a token that the strategy routed to a backend gets a
\* sticky entry clientID -> that backend and the clientID as its cookie; a
\* request presenting a clientID whose recorded backend is registered and
\* healthy is forwarded to that backend, bypassing the strategy.
C10_CookieAffinity ==
    \A r \in Reqs :
        /\ ( /\ req[r].cookie = NoCookie /\ req[r].path = "strategy"
             /\ req[r].pc \in {"inc", "forward", "dec", "dec_store", "done"} )
           => ( /\ req[r].resp # "panic"
                /\ req[r].recorded
                /\ req[r].setCookie \in ClientIDs )
        /\ ( /\ req[r].hit # NoAddr /\ req[r].hitOK
             /\ req[r].pc \notin {"cookie_get", "cookie_servers"} )
           => ( /\ req[r].path = "cookie"
                /\ req[r].b = req[r].hit
                /\ req[r].setCookie = NoCookie )

Weight(a) == backends[a].Weight
Active(a) == backends[a].active

\* the sum of the weights of the healthy backends that sort before a
WeightBefore(a) ==
    SumOver({x \in HealthySet : x < a}, [x \in DOMAIN backends |-> backends[x].Weight])

\* the backend whose interval, in address-sorted order, contains slot
SortedBucket(slot) ==
    CHOOSE a \in HealthySet : WeightBefore(a) <= slot /\ slot < WeightBefore(a) + Weight(a)

IsSorted(s) == \A i, j \in 1..Len(s) : i < j => s[i] < s[j]

\* C3: with N >= 1 healthy backends of equal weight and no membership or health
\* change, any N consecutive RoundRobin selections return each healthy backend
\* exactly once, and selections k and k+N return the same backend.
C3_RoundRobinCycle ==
    LET N == Cardinality(HealthySet) IN
    (N >= 1 /\ \A a, b \in HealthySet : Weight(a) = Weight(b)) =>
        \A k \in 1..Len(rsel) :
            /\ k + N - 1 <= Len(rsel) =>
                   {rsel[i].addr : i \in k..(k + N - 1)} = HealthySet
            /\ k + N <= Len(rsel) => rsel[k].addr = rsel[k + N].addr

\* C4: with fixed healthy membership the weighted selection made with counter
\* value c returns the backend whose interval, taken in address-sorted order,
\* contains (c-1) mod totalWeight; {A: 1, B: 3} from a fresh counter gives A, B, B, B.
C4_WeightedByCounter ==
    /\ \A i \in 1..Len(wsel) :
           /\ wsel[i].ok
           /\ wsel[i].addr = SortedBucket((wsel[i].c - 1) % totalWeight)
    /\ ( /\ DOMAIN backends = {1, 2} /\ HealthySet = {1, 2}
         /\ Weight(1) = 1 /\ Weight(2) = 3
         /\ Len(wsel) = 4 /\ wsel[1].c = 1 )
       => [i \in 1..4 |-> wsel[i].addr] = <<1, 2, 2, 2>>

\* C5: with fixed healthy membership whose weights sum to W, any W consecutive
\* weighted selections return backend i exactly weight(i) times.
C5_WeightedFrequency ==
    LET W == totalWeight IN
    W >= 1 =>
        \A k \in 1..Len(wsel) :
            k + W - 1 <= Len(wsel) =>
                \A a \in HealthySet :
                    Cardinality({i \in k..(k + W - 1) : wsel[i].addr = a}) = Weight(a)

\* C6: whenever some backend is healthy, GetLeastConnBackend returns a healthy
\* backend whose active count is the minimum over the healthy backends; it
\* never returns an unhealthy backend.
C6_LeastConnMinimum ==
    lc.valid =>
        /\ lc.ok => lc.addr \in HealthySet
        /\ HealthySet # {} =>
               /\ lc.ok
               /\ \A a \in HealthySet : Active(lc.addr) <= Active(a)

C6_Witness ==
    /\ lc.valid /\ lc.ok
    /\ \E a \in HealthySet : Active(a) > Active(lc.addr)

\* C8: HealthyBackends() returns exactly the registered addresses whose flag is
\* true at the read: right after MarkHealth(a, true) on a registered backend the
\* read contains a, right after MarkHealth(a, false) it does not.
C8_HealthySnapshotExact ==
    \A i \in 1..Len(snaps) :
        /\ Range(snaps[i]) = HealthySet
        /\ Len(snaps[i]) = Cardinality(HealthySet)
        /\ (lastOp.op = "MarkHealth" /\ lastOp.known) =>
               (lastOp.healthy <=> lastOp.addr \in Range(snaps[i]))

C8_Witness ==
    /\ Len(snaps) >= 1
    /\ lastOp.op = "MarkHealth" /\ lastOp.known /\ lastOp.healthy /\ ~lastOp.was
    /\ lastOp.addr \in Range(snaps[1])
    /\ \E a \in DOMAIN backends : ~backends[a].Healthy

\* C9: two HealthyBackends() calls made while the healthy membership is the
\* same return the addresses in the same, address-sorted, order.
C9_SnapshotOrder ==
    /\ \A i \in 1..Len(snaps) : IsSorted(snaps[i])
    /\ Len(snaps) = 2 => snaps[1] = snaps[2]

\* C11: a request presenting a cookie whose recorded backend is registered and
\* marked unhealthy (and stays so while the request is routed, some other
\* backend being healthy all along) falls back to the strategy and is forwarded
\* to a different backend that is healthy, never answered 503 or dropped.
C11_CookieFailover ==
    \A r \in Reqs :
        (req[r].fo /\ req[r].pc \in {"sticky_set", "done"})
            => ( /\ req[r].resp \notin {"503", "panic"}
                 /\ req[r].ok
                 /\ req[r].path = "strategy"
                 /\ req[r].b # req[r].hit
                 /\ req[r].hAtRet )

\* C12: in sticky mode "ip", two requests with the same resolved client IP,
\* routed over the same set of healthy backends, go to the same backend.
C12_IpAffinity ==
    \A r1, r2 \in Reqs :
        ( /\ req[r1].path = "ip" /\ req[r2].path = "ip"
          /\ req[r1].stable /\ req[r2].stable
          /\ req[r1].ip = req[r2].ip )
            => req[r1].b = req[r2].b

\* C13: every registered backend has weight >= 1 in every reachable state (a
\* weight given as zero or negative is stored as 1), so the total weight of a
\* non-empty healthy set is at least 1.
C13_WeightAtLeastOne ==
    /\ \A a \in DOMAIN backends : Weight(a) >= 1
    /\ HealthySet # {} => totalWeight >= 1
    /\ (lastOp.op = "AddServerWithWeight" /\ lastOp.weight <= 0) => Weight(lastOp.addr) = 1
    /\ (lastOp.op = "AddServerWithWeight" /\ lastOp.weight >= 1) =>
           Weight(lastOp.addr) = lastOp.weight

C13_Witness ==
    /\ lastOp.op = "AddServerWithWeight" /\ lastOp.weight < 0
    /\ lastOp.addr \in HealthySet
    /\ \E a \in DOMAIN backends : Weight(a) > 1

\* C14: MarkHealth, IncActive and DecActive on an address that is not in the
\* registry leave the registry as it is (no backend created, no flag, weight
\* or active count changed) and return normally; so does the DecActive of a
\* request whose backend was removed while the request was in flight.
C14_UnknownAddressNoOp ==
    [][ /\ \A a \in Addrs \ DOMAIN backends, h \in BOOLEAN :
              MarkHealth(a, h) => backends' = backends
        /\ \A r \in Reqs :
              (req[r].b \notin DOMAIN backends /\ IncActiveStep(r))
                  => (backends' = backends /\ req'[r].pc = "forward")
        /\ \A r \in Reqs :
              (req[r].b \notin DOMAIN backends /\ DecActiveStep(r))
                  => (backends' = backends /\ req'[r].pc = "done") ]_vars

C14_Witness ==
    \E r \in Reqs :
        /\ req[r].pc = "done"
        /\ req[r].incd # NoAddr /\ req[r].incOK
        /\ req[r].decd = req[r].incd /\ ~req[r].decOK
        /\ req[r].resp \in {"200", "502"}

\* C15: when the selection reports no healthy backend the handler answers 503
\* and does nothing else: the step that answers changes no active count and
\* no sticky entry, sets no cookie and has called neither IncActive nor the
\* forwarding; the only step that follows is the return (no retry).
C15_UnavailableOnly ==
    [][ \A r \in Reqs :
          /\ (req[r].resp # "503" /\ req'[r].resp = "503")
                => ( /\ req'[r].pc = "done"
                     /\ backends' = backends /\ store' = store
                     /\ req'[r].setCookie = NoCookie /\ ~req'[r].recorded
                     /\ req'[r].incd = NoAddr /\ req'[r].path = "none" )
          /\ (req[r].resp = "503" /\ req'[r] # req[r])
                => (req'[r] = Idle /\ backends' = backends /\ store' = store) ]_vars

C15_Witness ==
    \E r \in Reqs :
        /\ req[r].resp = "503" /\ req[r].pc = "done"
        /\ DOMAIN backends # {}
        /\ req[r].hit # NoAddr

\* the healthy flag of every registered backend
HealthFlags == [a \in DOMAIN backends |-> backends[a].Healthy]

\* C16: no step of request handling (sticky lookup, selection, IncActive,
\* forwarding that succeeds or fails, DecActive) changes a healthy flag; the
\* flags change only in MarkHealth and in registration and removal.
C16_HandlerKeepsHealth ==
    [][ structCalls' = structCalls => HealthFlags' = HealthFlags ]_vars

C16_Witness ==
    \E r \in Reqs :
        /\ req[r].pc = "done" /\ req[r].resp = "502"
        /\ req[r].incOK /\ req[r].decOK
        /\ req[r].hit = req[r].b
        /\ req[r].b \in HealthySet

\* C17: a request that has called IncActive(b) calls DecActive(b), once and
\* with the same address, when the forwarding returns, whether it succeeded or
\* failed; so with no request in flight every registered backend has active 0.
C17_IncDecPaired ==
    /\ \A r \in Reqs :
          /\ req[r].pc \in {"forward", "dec"} => (req[r].incd = req[r].b /\ req[r].decd = NoAddr)
          /\ req[r].pc \in {"dec_store", "done"} => req[r].decd = req[r].incd
    /\ (\A r \in Reqs : req[r].pc = "idle") =>
           \A a \in DOMAIN backends : Active(a) = 0

C17_Witness ==
    /\ \E r \in Reqs :
          /\ req[r].pc = "done" /\ req[r].resp = "502"
          /\ req[r].incOK /\ req[r].decOK
          /\ req[r].path = "cookie"
          /\ Active(req[r].b) = 0
    /\ started = MaxRequests

\* C18: the health loop never stops and probes every registered backend on
\* every tick: a registered backend whose probes succeed from some point on is
\* marked healthy again and again, and one whose probes fail from some point on
\* is marked unhealthy again and again.
C18_HealthLoopLive ==
    \A a \in Addrs :
        /\ <>[](a \in DOMAIN backends /\ probe[a] = "ok")
              => []<>(a \in HealthySet)
        /\ <>[](a \in DOMAIN backends /\ probe[a] = "fail")
              => []<>(a \in DOMAIN backends /\ a \notin HealthySet)

\* the requests in flight to a: those that have called IncActive(a) and not
\* yet DecActive(a)
InFlight(a) == {r \in Reqs : req[r].pc \in {"forward", "dec"} /\ req[r].incd = a}

\* C19: in every reachable state the active count of every registered backend
\* is the number of requests in flight to it, also when the backend is removed
\* and registered again while requests to it are in flight.
C19_ActiveIsInFlight ==
    \A a \in DOMAIN backends : Active(a) = Cardinality(InFlight(a))

\* C20: in GetWeightedBackend the slot (counter-1) mod total, computed from a
\* total weight > 0, always falls inside the table that is scanned: the scan
\* finds a backend and the fallback return after the loop is never reached,
\* whatever MarkHealth / RemoveServer / AddServerWithWeight do in between.
C20_FallbackUnreachable ==
    \A r \in Reqs : req[r].sel = "weighted" => req[r].ok

\* the selection attempt of request r returns in this step
Returns(r, kinds) == req[r].sel = "none" /\ req'[r].sel \in kinds

\* C21: the selection counter goes up by exactly 1 on every selection attempt,
\* one that finds no healthy backend included, and by nothing else: it never
\* decreases, and each increment belongs to one attempt (concurrent selections
\* get distinct values).
C21_CounterPerAttempt ==
    [][ /\ weightCounter' # weightCounter =>
              /\ weightCounter' = weightCounter + 1
              /\ Cardinality({r \in Reqs : req[r].pc = "w_count" /\ req'[r].pc = "w_scan"}) = 1
        /\ rrCounter' # rrCounter =>
              /\ rrCounter' = rrCounter + 1
              /\ Cardinality({r \in Reqs : req[r].pc = "rr_count" /\ req'[r].pc = "done"}) = 1
        /\ \A r \in Reqs :
              Returns(r, {"weighted", "weighted_total0"}) =>
                  (req[r].pc = "w_scan" \/ weightCounter' = weightCounter + 1)
        /\ \A r \in Reqs :
              Returns(r, {"rr"}) => rrCounter' = rrCounter + 1 ]_vars

\* ---------------------------------------------------------------- sticky entries and the clock
\* time passes
Tick ==
    /\ now < MaxTime
    /\ now' = now + 1
    /\ UNCHANGED <<progVars, histVars, boundVars, monVars, created, ipCall>>

\* STICKY=cookie with the clock running. No backend is registered again or
\* removed here, so no active count goes below zero and decActive never takes
\* its Store(0) branch.
ExpiryInit == InitWith({"cookie"}, {"weighted"})

ExpiryNext ==
    \/ Tick
    \/ \E a \in Addrs, h \in BOOLEAN : Structural(MarkHealth(a, h))
    \/ \E r \in Reqs :
        \/ Start(r, "handler")
        \/ CookieGet(r)
        \/ CookieServers(r)
        \/ WeightedTotal(r)
        \/ WeightedCount(r)
        \/ WeightedScanStep(r)
        \/ StickyRecord(r)
        \/ IncActiveStep(r)
        \/ Forward(r)
        \/ DecActiveStep(r)
        \/ Finish(r)

ExpirySpec == ExpiryInit /\ [][ExpiryNext]_vars

\* C22: a request whose sticky token's entry is past its creation time + TTL is
\* not routed by the stored mapping: it goes to the active strategy, like a
\* request with no token, and a new sticky entry is recorded for it.
C22_ExpiredFallsThrough ==
    \A r \in Reqs :
        ( /\ req[r].hitExpired
          /\ req[r].pc \in {"inc", "forward", "dec", "dec_store"} )
            => ( /\ req[r].path = "strategy"
                 /\ req[r].setCookie # NoCookie )

\* ---------------------------------------------------------------- the monitor and the lock
\* the probe of hc.cur has been sent and its result is not applied yet
ProbeOutstanding == hc.pc \in {"mark", "hung"}

\* C23: while a probe is outstanding the health goroutine holds no lock on the
\* registry, and every registry operation of another thread (a registration, a
\* removal, a health mark) can be carried out.
C23_NoLockWhileProbing ==
    ProbeOutstanding =>
        /\ hc.lock = "none"
        /\ \A a \in Addrs :
              /\ \A w \in InputWeights : ENABLED AddServerWithWeight(a, w)
              /\ ENABLED RemoveServer(a)
              /\ \A h \in BOOLEAN : ENABLED MarkHealth(a, h)

\* a probe that never returns is outstanding and another thread has completed
\* a registry call since it was sent
C23_Witness == hc.pc = "hung" /\ hc.met

\* C24: every probe terminates, one of a backend that never answers included:
\* an outstanding probe is eventually over, and a checkAll() under way
\* eventually returns, so that the loop sleeps and the next tick begins.
C24_ProbeTerminates ==
    /\ ProbeOutstanding ~> ~ProbeOutstanding
    /\ (hc.pc # "sleep") ~> (hc.pc = "sleep")

\* ---------------------------------------------------------------- registration
\* C25: AddServerWithWeight(a, w) leaves a registered with healthy = true,
\* active count 0 and weight max(w, 1), whether or not a was registered before,
\* and leaves every other backend as it was; called on the registry a first
\* such call has produced, it changes nothing (applying it twice is applying
\* it once).
C25_AddResetsBackend ==
    [][ \A a \in Addrs, w \in InputWeights :
            AddServerWithWeight(a, w) =>
                LET fresh == [Weight |-> IF w >= 1 THEN w ELSE 1, Healthy |-> TRUE, active |-> 0]
                IN  /\ DOMAIN backends' = DOMAIN backends \cup {a}
                    /\ backends'[a] = fresh
                    /\ \A b \in DOMAIN backends \ {a} : backends'[b] = backends[b]
                    /\ (a \in DOMAIN backends /\ backends[a] = fresh) => backends' = backends ]_vars

\* a request has incremented the active count of its backend and is being
\* forwarded; the one structural call made so far registered that backend
\* again, with the largest weight: its count is 0 and its weight the new one
C25_Witness ==
    \E r \in Reqs :
        /\ req[r].pc = "forward" /\ req[r].incOK
        /\ structCalls = 1
        /\ req[r].b \in DOMAIN backends
        /\ backends[req[r].b] = [Weight |-> MaxWeight, Healthy |-> TRUE, active |-> 0]

\* ---------------------------------------------------------------- ipToIndex
\* idx := ipToIndex(clientIP, n) (main.go:139)
CallIpToIndex ==
    /\ ~ipCall.done
    /\ ipCall' = [ipCall EXCEPT !.idx = ipToIndex(ipCall.ip, ipCall.n), !.done = TRUE]
    /\ UNCHANGED <<progVars, histVars, boundVars, monVars, clockVars>>

\* the pool as main builds it, and a call of ipToIndex about to be made on any
\* string and any length
IndexInit ==
    /\ \E m \in InitMaps : backends = NewServerPoolFromMap(m)
    /\ weightCounter = 0
    /\ rrCounter = 0
    /\ store = <<>>
    /\ strategy = "weighted"
    /\ stickyMode = "ip"
    /\ req = [r \in Reqs |-> Idle]
    /\ lastOp = NoOp
    /\ snaps = <<>>
    /\ wsel = <<>>
    /\ rsel = <<>>
    /\ lc = NoResult
    /\ structCalls = 0
    /\ started = 0
    /\ hc = HcIdle
    /\ probe = [a \in Addrs |-> "ok"]
    /\ flips = 0
    /\ now = 0
    /\ created = <<>>
    /\ \E ip \in IndexInputs, n \in IndexLens : ipCall = [NoCall EXCEPT !.ip = ip, !.n = n]

IndexNext == CallIpToIndex

IndexSpec == IndexInit /\ [][IndexNext]_vars

C27_MonitorKeepsMembership ==
    [][ /\ hc'.pc # hc.pc => DOMAIN backends' = DOMAIN backends
        /\ DOMAIN backends' # DOMAIN backends =>
              /\ structCalls' = structCalls + 1
              /\ \E a \in Addrs :
                    \/ \E w \in InputWeights : AddServerWithWeight(a, w)
                    \/ RemoveServer(a) ]_vars

\* the goroutine has applied the result of a successful probe to a backend
\* that was removed after the snapshot, and the backend is absent
C27_Witness ==
    /\ hc.pc = "range"
    /\ hc.late # NoAddr
    /\ hc.late \notin DOMAIN backends
    /\ probe[hc.late] = "ok"
    /\ flips = 0
====
